---- MODULE Spec2Model ----
(***************************************************************************)
(* A model of ariba's Summary class (src/ariba/summary.py): parsing of     *)
(* report rows, classification of a gene's records into a summary number,  *)
(* the sample x gene matrix, the zero row/column filter and the distance   *)
(* matrix.                                                                 *)
(*                                                                         *)
(* Python values that can meet in one comparison are tagged records        *)
(* [kind, n, s]: an int, a float (held in hundredths, so 90.5 is 9050),    *)
(* a str, or None.  Raw column text is a sequence of one-character         *)
(* strings, so that int() and float() are real conversions.                *)
(***************************************************************************)
EXTENDS Integers, Sequences, FiniteSets, TLC

VARIABLES
    filenames,      \* self.filenames: the report files, in the order supplied
    files,          \* the file system: filename -> sequence of raw data lines
    filter_output,  \* self.filter_output
    min_id,         \* self.min_id, in hundredths of a percent
    data,           \* self.data: filename -> (gene -> list of parsed rows)
    rows_out,       \* self.rows_out
    rows_in,        \* history: self.rows_out as it was when the last filter call began
    distance_file,  \* the lines of the distance matrix file (<<>>: nothing written)
    pc,             \* the last operation begun
    err,            \* the exception that operation raised ("" when it returned)
    raw,            \* the raw report lines of one gene (classification runs)
    l,              \* their parsed dictionaries, as passed to _to_summary_number
    identity,       \* what _pc_id_of_longest(l) did
    summary         \* what _to_summary_number(l) did

vars == <<filenames, files, filter_output, min_id, data, rows_out, rows_in,
          distance_file, pc, err, raw, l, identity, summary>>

(***************************************************************************)
(* Bounds                                                                  *)
(***************************************************************************)
MaxRecs == 2    \* records of one gene in a classification run
MaxFiles == 2   \* report files of a summary run
MaxLines == 3   \* data lines over all the report files of a summary run

(***************************************************************************)
(* Python values                                                           *)
(***************************************************************************)
PyInt(n) == [kind |-> "int", n |-> n, s |-> ""]
PyFloat(h) == [kind |-> "float", n |-> h, s |-> ""]
PyStr(s) == [kind |-> "str", n |-> 0, s |-> s]
PyNone == [kind |-> "none", n |-> 0, s |-> ""]

IsNumber(v) == v.kind \in {"int", "float"}

\* What a call did: it returned val, or raised the exception named err.
Return(v) == [err |-> "", val |-> v]
Raise(e) == [err |-> e, val |-> PyNone]
NotRun == [err |-> "not run", val |-> PyNone]

DigitChars == <<"0", "1", "2", "3", "4", "5", "6", "7", "8", "9">>
IsDigit(c) == \E d \in 1..10 : DigitChars[d] = c
DigitVal(c) == (CHOOSE d \in 1..10 : DigitChars[d] = c) - 1

RECURSIVE DecimalValue(_)
DecimalValue(text) ==
    IF text = <<>> THEN 0
    ELSE 10 * DecimalValue(SubSeq(text, 1, Len(text) - 1)) + DigitVal(text[Len(text)])

\* int(text) succeeds on a non-empty run of decimal digits.
IsIntText(text) == Len(text) > 0 /\ \A k \in 1..Len(text) : IsDigit(text[k])

\* float(text) succeeds on digits with at most one decimal point and at least
\* one digit; the value is kept in hundredths (two decimals are enough for the
\* texts drawn here).
DotsOf(text) == {k \in 1..Len(text) : text[k] = "."}
IsFloatText(text) ==
    /\ \A k \in 1..Len(text) : IsDigit(text[k]) \/ text[k] = "."
    /\ Cardinality(DotsOf(text)) <= 1
    /\ \E k \in 1..Len(text) : IsDigit(text[k])
FloatHundredths(text) ==
    LET p == IF DotsOf(text) = {} THEN Len(text) + 1 ELSE CHOOSE k \in DotsOf(text) : TRUE
        whole == SubSeq(text, 1, p - 1)
        frac == SubSeq(text, p + 1, Len(text))
        d1 == IF Len(frac) >= 1 THEN DigitVal(frac[1]) ELSE 0
        d2 == IF Len(frac) >= 2 THEN DigitVal(frac[2]) ELSE 0
    IN  100 * DecimalValue(whole) + 10 * d1 + d2

(***************************************************************************)
(* Flags (ariba.flag.Flag): the decoded set of the names that are set.     *)
(***************************************************************************)
FlagNames == {"assembly_fail", "gene_assembled", "hit_both_strands", "complete_orf",
              "unique_contig", "gene_assembled_into_one_contig",
              "has_nonsynonymous_variants"}
has(f, name) == name \in f

(***************************************************************************)
(* Summary._line2dict, on the columns the summary reads: gene, flag,       *)
(* assembled (an int column) and pc_ident.                                 *)
(***************************************************************************)
int_column(text) ==
    IF IsIntText(text) THEN Return(PyInt(DecimalValue(text)))
    ELSE IF text = <<".">> THEN Return(PyStr("."))
    ELSE Raise("AssertionError")

pc_ident_column(text) ==
    IF IsFloatText(text) THEN Return(PyFloat(FloatHundredths(text)))
    ELSE IF text = <<".">> THEN Return(PyStr("."))
    ELSE Raise("AssertionError")

line2dict(line) ==
    LET a == int_column(line.assembled)
        p == pc_ident_column(line.pc_ident)
    IN  IF a.err # "" THEN Raise(a.err)
        ELSE IF p.err # "" THEN Raise(p.err)
        ELSE [err |-> "",
              val |-> [gene |-> line.gene, flag |-> line.flag,
                       assembled |-> a.val, pc_ident |-> p.val]]

(***************************************************************************)
(* Summary._pc_id_of_longest                                               *)
(***************************************************************************)
RECURSIVE pc_id_loop(_, _, _, _)
pc_id_loop(lst, i, longest, ident) ==
    IF i > Len(lst)
    THEN IF ident = PyNone THEN Raise("AssertionError") ELSE Return(ident)
    ELSE IF lst[i].assembled.kind # "int"
         THEN Raise("TypeError")      \* str > int
         ELSE IF lst[i].assembled.n > longest
              THEN pc_id_loop(lst, i + 1, lst[i].assembled.n, lst[i].pc_ident)
              ELSE pc_id_loop(lst, i + 1, longest, ident)

\* A variant in which a later record of equal length replaces the earlier one.
RECURSIVE pc_id_loop_last_wins(_, _, _, _)
pc_id_loop_last_wins(lst, i, longest, ident) ==
    IF i > Len(lst)
    THEN IF ident = PyNone THEN Raise("AssertionError") ELSE Return(ident)
    ELSE IF lst[i].assembled.kind # "int"
         THEN Raise("TypeError")
         ELSE IF lst[i].assembled.n >= longest /\ lst[i].assembled.n > 0
              THEN pc_id_loop_last_wins(lst, i + 1, lst[i].assembled.n, lst[i].pc_ident)
              ELSE pc_id_loop_last_wins(lst, i + 1, longest, ident)

pc_id_of_longest_last_wins(lst) == pc_id_loop_last_wins(lst, 1, 0, PyNone)

pc_id_of_longest(lst) == pc_id_loop(lst, 1, 0, PyNone)

(***************************************************************************)
(* Summary._to_summary_number                                              *)
(***************************************************************************)
flag_code(f) ==
    IF has(f, "hit_both_strands") \/ ~has(f, "complete_orf") THEN 1
    ELSE IF has(f, "unique_contig") /\ has(f, "gene_assembled_into_one_contig")
            /\ has(f, "complete_orf")
         THEN IF has(f, "has_nonsynonymous_variants") THEN 3 ELSE 4
         ELSE 2

\* A variant whose identity threshold is exclusive.
to_summary_number_strict(lst, minid) ==
    LET f == lst[1].flag
    IN  IF has(f, "assembly_fail") \/ ~has(f, "gene_assembled")
        THEN Return(PyInt(0))
        ELSE LET r == pc_id_of_longest(lst)
             IN  IF r.err # "" THEN Raise(r.err)
                 ELSE IF ~IsNumber(r.val) THEN Raise("TypeError")
                 ELSE IF r.val.n < minid THEN Return(PyInt(0))
                 ELSE Return(PyInt(flag_code(f)))

to_summary_number(lst, minid) ==
    LET f == lst[1].flag
    IN  IF has(f, "assembly_fail") \/ ~has(f, "gene_assembled")
        THEN Return(PyInt(0))
        ELSE LET r == pc_id_of_longest(lst)
             IN  IF r.err # "" THEN Raise(r.err)
                 ELSE IF ~IsNumber(r.val) THEN Raise("TypeError")   \* str <= float
                 ELSE IF r.val.n <= minid THEN Return(PyInt(0))
                 ELSE Return(PyInt(flag_code(f)))

(***************************************************************************)
(* Classification runs: the records of one gene of one report are parsed   *)
(* and handed to _pc_id_of_longest and to _to_summary_number.              *)
(***************************************************************************)
DefaultMinId == 9000    \* min_id=90.0
MinIds == {DefaultMinId, DefaultMinId + 50}

AssembledTexts == {<<".">>, <<"0">>, <<"1">>, <<"2">>}
MalformedTexts == {<<"x">>}      \* neither a number nor the missing marker
PcIdentTexts == {<<".">>, <<"9", "0">>, <<"9", "0", ".", "5">>}
PerfectFlags == {"gene_assembled", "complete_orf", "unique_contig",
                 "gene_assembled_into_one_contig"}

RawLine(g, f, a, p) == [gene |-> g, flag |-> f, assembled |-> a, pc_ident |-> p]

\* The first row of a gene carries any combination of the flags; the rows after
\* it carry flags that differ from most first rows'.
FirstLines == {RawLine("aac", f, a, p) :
                  f \in SUBSET FlagNames, a \in AssembledTexts \cup MalformedTexts,
                  p \in PcIdentTexts}
LaterLines == {RawLine("aac", PerfectFlags, a, p) :
                  a \in AssembledTexts \ {<<"0">>}, p \in PcIdentTexts \ {<<"9", "0">>}}

RECURSIVE SeqsOf(_, _)
SeqsOf(S, n) ==
    IF n = 0 THEN {<<>>}
    ELSE {Append(q, x) : q \in SeqsOf(S, n - 1), x \in S}


\* The rows of a file parsed in order; the first row that fails to parse raises.
RECURSIVE parse_lines(_)
parse_lines(lines) ==
    IF lines = <<>> THEN [err |-> "", val |-> <<>>]
    ELSE LET rest == parse_lines(SubSeq(lines, 1, Len(lines) - 1))
             d == line2dict(lines[Len(lines)])
         IN  IF rest.err # "" THEN rest
             ELSE IF d.err # "" THEN [err |-> d.err, val |-> <<>>]
             ELSE [err |-> "", val |-> Append(rest.val, d.val)]

NoFiles == [f \in {} |-> <<>>]

InitClassify ==
    /\ \E n \in 0..(MaxRecs - 1) : \E f \in FirstLines : \E t \in SeqsOf(LaterLines, n) :
           raw = <<f>> \o t
    /\ min_id \in MinIds
    /\ l = <<>>
    /\ identity = NotRun
    /\ summary = NotRun
    /\ pc = "init"
    /\ err = ""
    /\ filenames = <<>>
    /\ files = NoFiles
    /\ filter_output = TRUE
    /\ data = NoFiles
    /\ rows_out = <<>>
    /\ rows_in = <<>>
    /\ distance_file = <<>>

pipeline_vars == <<filenames, files, filter_output, data, rows_out, rows_in, distance_file>>

\* _line2dict on every row of the gene
Line2Dict ==
    /\ pc = "init"
    /\ LET r == parse_lines(raw)
       IN  /\ l' = r.val
           /\ err' = r.err
    /\ pc' = "line2dict"
    /\ UNCHANGED <<raw, min_id, identity, summary>>
    /\ UNCHANGED pipeline_vars

\* _pc_id_of_longest(l)
PcIdOfLongest ==
    /\ pc = "line2dict"
    /\ err = ""
    /\ identity' = pc_id_of_longest(l)
    /\ pc' = "pc_id_of_longest"
    /\ UNCHANGED <<raw, min_id, l, summary, err>>
    /\ UNCHANGED pipeline_vars

\* _to_summary_number(l)
ToSummaryNumber ==
    /\ pc = "pc_id_of_longest"
    /\ summary' = to_summary_number(l, min_id)
    /\ pc' = "to_summary_number"
    /\ UNCHANGED <<raw, min_id, l, identity, err>>
    /\ UNCHANGED pipeline_vars

NextClassify == Line2Dict \/ PcIdOfLongest \/ ToSummaryNumber

SpecClassify == InitClassify /\ [][NextClassify]_vars

(***************************************************************************)
(* Summary._load_file, on the data lines of a report: the parsed rows      *)
(* grouped by gene, each gene's rows in file order.                        *)
(***************************************************************************)
genes_of(rows) == {rows[i].gene : i \in 1..Len(rows)}

load_file(lines) ==
    LET r == parse_lines(lines)
    IN  IF r.err # "" THEN [err |-> r.err, val |-> NoFiles]
        ELSE [err |-> "",
              val |-> [g \in genes_of(r.val) |->
                          SelectSeq(r.val, LAMBDA d : d.gene = g)]]

(***************************************************************************)
(* Summary._gather_output_rows                                             *)
(***************************************************************************)
\* Gene names in ascending lexical order: a name's place here is its rank.
GeneOrder == <<"aac", "bla">>
LexRank(g) == CHOOSE i \in 1..Len(GeneOrder) : GeneOrder[i] = g

\* A variant that leaves the gene names in descending order.
RECURSIVE sorted_genes_descending(_)
sorted_genes_descending(S) ==
    IF S = {} THEN <<>>
    ELSE LET m == CHOOSE g \in S : \A h \in S : LexRank(g) >= LexRank(h)
         IN  <<m>> \o sorted_genes_descending(S \ {m})

RECURSIVE sorted_genes(_)
sorted_genes(S) ==
    IF S = {} THEN <<>>
    ELSE LET m == CHOOSE g \in S : \A h \in S : LexRank(g) <= LexRank(h)
         IN  <<m>> \o sorted_genes(S \ {m})

all_genes_of(d, fnames) ==
    sorted_genes(UNION {DOMAIN d[fnames[i]] : i \in 1..Len(fnames)})

\* new_row for one file: the file name, then one cell per gene; the first
\* gene whose classification raises ends it.
RECURSIVE new_row(_, _, _, _, _)
new_row(fname, d, genes, k, minid) ==
    IF k = 0 THEN [err |-> "", val |-> <<PyStr(fname)>>]
    ELSE LET before == new_row(fname, d, genes, k - 1, minid)
             cell == IF genes[k] \notin DOMAIN d[fname] THEN Return(PyInt(0))
                     ELSE to_summary_number(d[fname][genes[k]], minid)
         IN  IF before.err # "" THEN before
             ELSE IF cell.err # "" THEN [err |-> cell.err, val |-> before.val]
             ELSE [err |-> "", val |-> Append(before.val, cell.val)]

\* self.rows_out after the first k files; a row that raises is not appended.
RECURSIVE gather_rows(_, _, _, _, _)
gather_rows(fnames, d, genes, k, minid) ==
    IF k = 0 THEN [err |-> "", val |-> << <<PyStr("filename")>> \o [i \in 1..Len(genes) |-> PyStr(genes[i])] >>]
    ELSE LET before == gather_rows(fnames, d, genes, k - 1, minid)
             row == new_row(fnames[k], d, genes, Len(genes), minid)
         IN  IF before.err # "" THEN before
             ELSE IF row.err # "" THEN [err |-> row.err, val |-> before.val]
             ELSE [err |-> "", val |-> Append(before.val, row.val)]

classify_vars == <<raw, l, identity, summary>>

Gather ==
    /\ pc = "init"
    /\ pc' = "gather"
    /\ LET loaded == [f \in DOMAIN files |-> load_file(files[f])]
           bad == {i \in 1..Len(filenames) : loaded[filenames[i]].err # ""}
       IN  IF bad # {}
           THEN /\ err' = loaded[filenames[CHOOSE i \in bad : \A j \in bad : i <= j]].err
                /\ UNCHANGED <<data, rows_out>>
           ELSE LET d == [f \in DOMAIN files |-> loaded[f].val]
                    r == gather_rows(filenames, d, all_genes_of(d, filenames),
                                     Len(filenames), min_id)
                IN  /\ data' = d
                    /\ rows_out' = r.val
                    /\ err' = r.err
    /\ UNCHANGED <<filenames, files, filter_output, min_id, rows_in, distance_file>>
    /\ UNCHANGED classify_vars

(***************************************************************************)
(* Summary._filter_output_rows                                             *)
(***************************************************************************)
zeros(n) == [i \in 1..n |-> PyInt(0)]

RECURSIVE column_sum(_, _)
column_sum(rows, i) ==
    IF rows = <<>> THEN 0
    ELSE rows[1][i].n + column_sum(Tail(rows), i)

\* the rows that are not all zeros (line 179)
nonzero_rows(rows) == SelectSeq(rows, LAMBDA x : Tail(x) # zeros(Len(x) - 1))

\* A variant that leaves the first data row out of the column sums.
to_remove_skipping_first(rows) ==
    {i \in 2..Len(rows[1]) : column_sum(SubSeq(rows, 3, Len(rows)), i) = 0}

\* the columns that are all zeros (lines 182-185), as 1-based positions
to_remove(rows) == {i \in 2..Len(rows[1]) : column_sum(Tail(rows), i) = 0}

RECURSIVE without_columns(_, _)
without_columns(row, cols) ==
    IF row = <<>> THEN <<>>
    ELSE LET front == without_columns(SubSeq(row, 1, Len(row) - 1), cols)
         IN  IF Len(row) \in cols THEN front ELSE Append(front, row[Len(row)])

filter_output_rows(rows, enabled) ==
    IF ~enabled THEN [err |-> "", val |-> rows]
    ELSE LET kept == nonzero_rows(rows)
         IN  IF kept = <<>> THEN [err |-> "IndexError", val |-> kept]   \* self.rows_out[0]
             ELSE [err |-> "",
                   val |-> [i \in 1..Len(kept) |-> without_columns(kept[i], to_remove(kept))]]

Filter ==
    /\ pc \in {"gather", "filter"}
    /\ err = ""
    /\ pc' = IF pc = "gather" THEN "filter" ELSE "filter2"
    /\ rows_in' = rows_out
    /\ LET r == filter_output_rows(rows_out, filter_output)
       IN  /\ rows_out' = r.val
           /\ err' = r.err
    /\ UNCHANGED <<filenames, files, filter_output, min_id, data, distance_file>>
    /\ UNCHANGED classify_vars

(***************************************************************************)
(* Summary._distance_score_between_values, _distance_score_between_lists   *)
(***************************************************************************)
\* A variant that scores every disagreement.
distance_score_any_difference(value1, value2) ==
    IF value1 # value2 THEN 1 ELSE 0

distance_score_between_values(value1, value2) ==
    IF value1 # value2 /\ (value1 = PyInt(0) \/ value2 = PyInt(0)) THEN 1 ELSE 0

RECURSIVE score_sum(_, _, _)
score_sum(scores1, scores2, i) ==
    IF i > Len(scores1) THEN 0
    ELSE distance_score_between_values(scores1[i], scores2[i])
         + score_sum(scores1, scores2, i + 1)

distance_score_between_lists(scores1, scores2) ==
    IF Len(scores1) # Len(scores2) THEN Raise("AssertionError")
    ELSE Return(PyInt(score_sum(scores1, scores2, 2)))

(***************************************************************************)
(* Summary._write_distance_matrix: the lines of the file, each a sequence  *)
(* of its tab-separated fields.                                            *)
(***************************************************************************)
sample_names(rows) == [i \in 1..Len(rows) |-> rows[i][1]]

\* A variant that accepts a single sample row.
too_few_rows_off_by_one(rows) == Len(rows) < 2

too_few_rows(rows) == Len(rows) < 3

distance_line(rows, i) ==
    <<rows[i][1]>> \o [j \in 1..(Len(rows) - 2) |->
                          distance_score_between_lists(rows[i], rows[j + 2]).val]

write_distance_matrix(rows) ==
    IF too_few_rows(rows) THEN [err |-> "Error", val |-> <<>>]
    ELSE IF Len(rows[1]) < 2 THEN [err |-> "Error", val |-> <<>>]
    ELSE [err |-> "",
          val |-> <<Tail(sample_names(rows))>>
                  \o [i \in 1..(Len(rows) - 1) |-> distance_line(rows, i + 1)]]

WriteDistanceMatrix ==
    /\ pc \in {"gather", "filter", "filter2"}
    /\ err = ""
    /\ pc' = "write"
    /\ LET r == write_distance_matrix(rows_out)
       IN  /\ distance_file' = r.val
           /\ err' = r.err
    /\ UNCHANGED <<filenames, files, filter_output, min_id, data, rows_out, rows_in>>
    /\ UNCHANGED classify_vars

(***************************************************************************)
(* Summary runs: report files are gathered into the matrix, which is then  *)
(* filtered (possibly twice) and written as a distance matrix.             *)
(***************************************************************************)
FileNames == <<"s2", "s1", "s3">>     \* the order supplied is not the sorted one
NoFlags == {}
PipeLines ==
    {RawLine("aac", f, <<"1">>, <<"9", "1">>) :
        f \in {NoFlags, {"gene_assembled"}, PerfectFlags}}
    \cup {RawLine("bla", f, <<"1">>, <<"9", "1">>) : f \in {NoFlags, PerfectFlags}}
    \cup {RawLine("bla", PerfectFlags, <<"1">>, <<".">>)}

LinesUpTo(n) == UNION {SeqsOf(PipeLines, k) : k \in 0..n}

\* The contents of n files that hold at most budget lines between them.
RECURSIVE FileContents(_, _)
FileContents(n, budget) ==
    IF n = 0 THEN {<<>>}
    ELSE UNION {{<<c>> \o rest : rest \in FileContents(n - 1, budget - Len(c))} :
                   c \in LinesUpTo(budget)}

Init ==
    /\ \E n \in 0..MaxFiles : \E cs \in FileContents(n, MaxLines) :
           /\ filenames = SubSeq(FileNames, 1, n)
           /\ files = [f \in {FileNames[i] : i \in 1..n} |->
                          cs[CHOOSE i \in 1..n : FileNames[i] = f]]
    /\ filter_output \in BOOLEAN
    /\ min_id = DefaultMinId
    /\ data = NoFiles
    /\ rows_out = <<>>
    /\ rows_in = <<>>
    /\ distance_file = <<>>
    /\ pc = "init"
    /\ err = ""
    /\ raw = <<>>
    /\ l = <<>>
    /\ identity = NotRun
    /\ summary = NotRun

Next == Gather \/ Filter \/ WriteDistanceMatrix

Spec == Init /\ [][Next]_vars

(***************************************************************************)
(* Claims about classification                                             *)
(***************************************************************************)
Identified == pc \in {"pc_id_of_longest", "to_summary_number"}

\* The code the priority order of the claim gives for flags f and best identity b.
PriorityCode(f, b, m) ==
    IF "assembly_fail" \in f \/ "gene_assembled" \notin f \/ b <= m THEN 0
    ELSE IF "hit_both_strands" \in f \/ "complete_orf" \notin f THEN 1
    ELSE IF {"unique_contig", "gene_assembled_into_one_contig", "complete_orf"} \subseteq f
         THEN IF "has_nonsynonymous_variants" \in f THEN 3 ELSE 4
    ELSE 2

\* C1: for a record list whose best identity is a number, _to_summary_number
\* returns the code in 0..4 that the priority order gives for the flags of the
\* first record and the comparison best identity <= min_id.
C1_SummaryNumberByPriority ==
    (pc = "to_summary_number" /\ identity.err = "" /\ IsNumber(identity.val)) =>
        /\ summary = Return(PyInt(PriorityCode(l[1].flag, identity.val.n, min_id)))
        /\ summary.val.n \in 0..4

\* An identity exactly at the threshold, on flags that otherwise give 4, gives 0.
C1_Witness ==
    /\ pc = "to_summary_number"
    /\ Len(l) = 2
    /\ l[1].flag = PerfectFlags
    /\ identity = Return(PyFloat(min_id))
    /\ summary = Return(PyInt(0))

AllLengthsPresent(lst) == \A i \in 1..Len(lst) : lst[i].assembled.kind = "int"
HasIdentity(rec) == rec.pc_ident.kind = "float"
GreatestLength(lst) ==
    CHOOSE n \in {lst[i].assembled.n : i \in 1..Len(lst)} :
        \A i \in 1..Len(lst) : lst[i].assembled.n <= n
FirstLongest(lst) ==
    CHOOSE i \in 1..Len(lst) :
        /\ lst[i].assembled.n = GreatestLength(lst)
        /\ \A j \in 1..(i - 1) : lst[j].assembled.n < GreatestLength(lst)

C9_Original ==
    /\ (pc = "line2dict" /\ \A i \in 1..Len(raw) : raw[i].assembled \notin MalformedTexts)
           => /\ err = ""
              /\ \A i \in 1..Len(raw) :
                     raw[i].pc_ident = <<".">> => l[i].pc_ident = PyStr(".")
    /\ (Identified /\ identity.err = "" /\ \E i \in 1..Len(l) : HasIdentity(l[i]))
           => identity.val.kind = "float"
    /\ (pc = "to_summary_number" /\ Len(l) = 1 /\ l[1].pc_ident = PyStr("."))
           => summary.err = "AssertionError"

(***************************************************************************)
(* Claims about the matrix, the filter and the distance matrix             *)
(***************************************************************************)
Indices(n) == [i \in 1..n |-> i]

\* The genes named by the raw lines of the supplied files.
RawGenes ==
    UNION {{files[filenames[i]][j].gene : j \in 1..Len(files[filenames[i]])} :
              i \in 1..Len(filenames)}

\* The parsed records of gene g in file f, in file order.
RecordsOf(f, g) == SelectSeq(parse_lines(files[f]).val, LAMBDA d : d.gene = g)

\* C2: after _gather_output_rows has returned, the header is 'filename' and
\* then the genes of all the loaded samples, each once, in ascending order;
\* there is one data row per supplied file, in the order supplied; every data
\* row has one cell per gene column, 0 when the sample has no record of the
\* gene and otherwise what _to_summary_number returns for its records.
C2_GatheredMatrix ==
    (pc = "gather" /\ err = "") =>
        LET header == rows_out[1]
            ngenes == Len(header) - 1
        IN  /\ header[1] = PyStr("filename")
            /\ \A k \in 2..Len(header) : header[k].kind = "str"
            /\ {header[k].s : k \in 2..Len(header)} = RawGenes
            /\ \A a, b \in 2..Len(header) :
                   a < b => LexRank(header[a].s) < LexRank(header[b].s)
            /\ Len(rows_out) = Len(filenames) + 1
            /\ \A i \in 1..Len(filenames) :
                   /\ rows_out[i + 1][1] = PyStr(filenames[i])
                   /\ Len(rows_out[i + 1]) = ngenes + 1
                   /\ \A k \in 2..Len(header) :
                          LET recs == RecordsOf(filenames[i], header[k].s)
                          IN  rows_out[i + 1][k] =
                                  IF recs = <<>> THEN PyInt(0)
                                  ELSE to_summary_number(recs, min_id).val

\* Two files supplied out of sorted order, the first naming bla before aac and
\* lacking nothing, the second lacking aac.
C2_Witness ==
    /\ pc = "gather"
    /\ err = ""
    /\ filenames = <<"s2", "s1">>
    /\ Len(files["s2"]) = 2
    /\ files["s2"][1].gene = "bla"
    /\ files["s2"][2].gene = "aac"
    /\ rows_out[1] = <<PyStr("filename"), PyStr("aac"), PyStr("bla")>>
    /\ rows_out[2] = <<PyStr("s2"), PyInt(1), PyInt(4)>>
    /\ rows_out[3] = <<PyStr("s1"), PyInt(0), PyInt(4)>>

ZeroRow(m, i) == \A k \in 2..Len(m[i]) : m[i][k] = PyInt(0)
ZeroColumn(m, k) == \A i \in 2..Len(m) : m[i][k] = PyInt(0)
KeptRows(m) == SelectSeq(Indices(Len(m)), LAMBDA i : i = 1 \/ ~ZeroRow(m, i))
KeptColumns(m) == SelectSeq(Indices(Len(m[1])), LAMBDA k : k = 1 \/ ~ZeroColumn(m, k))

\* The rows and the columns to keep, each decided on the whole of m.
IndependentFilter(m) ==
    [i \in 1..Len(KeptRows(m)) |->
        [k \in 1..Len(KeptColumns(m)) |-> m[KeptRows(m)[i]][KeptColumns(m)[k]]]]

Filtered == pc \in {"filter", "filter2"} /\ filter_output

\* C3: when the enabled _filter_output_rows has returned, it has removed
\* exactly the sample rows that are all zero and exactly the gene columns that
\* are zero in every data row of the matrix it was given, as if each were
\* decided on that matrix alone, and what is left keeps its order; and it
\* returns on every matrix that has a gene column.
C3_FilterIsIndependent ==
    /\ (Filtered /\ err = "") => rows_out = IndependentFilter(rows_in)
    /\ (Filtered /\ Len(rows_in[1]) >= 2) => err = ""

\* The first sample row and the first gene column are all zero and are
\* removed; the second sample row and the second gene column stay.
C3_Witness ==
    /\ pc = "filter"
    /\ filter_output
    /\ err = ""
    /\ rows_in = << <<PyStr("filename"), PyStr("aac"), PyStr("bla")>>,
                    <<PyStr("s2"), PyInt(0), PyInt(0)>>,
                    <<PyStr("s1"), PyInt(0), PyInt(4)>> >>
    /\ rows_out = << <<PyStr("filename"), PyStr("bla")>>,
                     <<PyStr("s1"), PyInt(4)>> >>

\* C4 as stated: the enabled filter applied to an already filtered matrix
\* returns, and leaves the matrix as it was.
C4_Original ==
    (pc = "filter2" /\ filter_output) => (err = "" /\ rows_out = rows_in)

\* C5 as stated: after _gather_output_rows, the enabled _filter_output_rows
\* returns, and the matrix still begins with its header row, which begins
\* with 'filename'.
C5_Original ==
    (pc = "filter" /\ filter_output) =>
        /\ err = ""
        /\ rows_out # <<>>
        /\ rows_out[1][1] = PyStr("filename")

\* The positions after the sample identifier where exactly one cell is 0.
PresenceDisagreements(a, b) ==
    Cardinality({k \in 2..Len(a) : (a[k] = PyInt(0)) # (b[k] = PyInt(0))})

\* C6: the score of two rows of equal length is the number of gene columns
\* where exactly one of the two cells is 0; so it is symmetric, not negative,
\* and 0 for a row against itself.  The scores written to the distance matrix
\* are these numbers.
C6_PresenceAbsenceScore ==
    /\ \A i, j \in 2..Len(rows_out) :
           Len(rows_out[i]) = Len(rows_out[j]) =>
               LET r == distance_score_between_lists(rows_out[i], rows_out[j])
               IN  /\ r = Return(PyInt(PresenceDisagreements(rows_out[i], rows_out[j])))
                   /\ r = distance_score_between_lists(rows_out[j], rows_out[i])
                   /\ r.val.n >= 0
                   /\ i = j => r.val.n = 0
    /\ (pc = "write" /\ err = "") =>
           \A i \in 2..Len(rows_out) : \A j \in 3..Len(rows_out) :
               distance_file[i][j - 1] =
                   PyInt(PresenceDisagreements(rows_out[i], rows_out[j]))

\* A distance matrix was written for two rows that hold different non-zero
\* codes in one column.
C6_Witness ==
    /\ pc = "write"
    /\ err = ""
    /\ \E i, j \in 2..Len(rows_out) : \E k \in 2..Len(rows_out[1]) :
           /\ rows_out[i][k] # rows_out[j][k]
           /\ rows_out[i][k] # PyInt(0)
           /\ rows_out[j][k] # PyInt(0)

\* C7: _write_distance_matrix raises Error and writes nothing when the matrix
\* has fewer than two sample rows or no gene column.
C7_TooSmallMatrixRaises ==
    (pc = "write" /\ (Len(rows_out) - 1 < 2 \/ Len(rows_out[1]) - 1 < 1)) =>
        (err = "Error" /\ distance_file = <<>>)

\* The enabled filter removed two samples that scored 0 everywhere, and the
\* write of the header-only matrix raised.
C7_Witness ==
    /\ pc = "write"
    /\ err = "Error"
    /\ filter_output
    /\ Len(rows_in) = 3
    /\ Len(rows_in[1]) >= 2
    /\ rows_out = << <<PyStr("filename")>> >>
    /\ distance_file = <<>>

\* C10 as stated: the file's header lists samples 2..N, and row i is sample
\* i's identifier and its scores against samples 2..N, so that the header
\* has one label per score column.
C10_Original ==
    (pc = "write" /\ err = "") =>
        LET N == Len(rows_out) - 1
        IN  /\ Len(distance_file) = N + 1
            /\ distance_file[1] = [j \in 1..(N - 1) |-> rows_out[j + 2][1]]
            /\ \A i \in 1..N :
                   /\ distance_file[i + 1] =
                          <<rows_out[i + 1][1]>>
                          \o [j \in 1..(N - 1) |->
                                 distance_score_between_lists(rows_out[i + 1],
                                                              rows_out[j + 2]).val]
                   /\ Len(distance_file[1]) = Len(distance_file[i + 1]) - 1

====
